---- MODULE Spec2Model ----
(***************************************************************************)
(* Model of app/routes/_auth+/forgot-password_.verify.tsx: the loader and  *)
(* the action of the password-recovery verification route, both of which   *)
(* run validate().  The state is the verification table, the clock, and    *)
(* for every request its inputs, its position in validate() and what it    *)
(* has read so far.  Every await of validate() is a separate step, so that *)
(* requests interleave exactly where the handler can be suspended.         *)
(***************************************************************************)
EXTENDS Integers, Sequences, FiniteSets, TLC

VARIABLES store, now, att

vars == <<store, now, att>>

(***************************************************************************)
(* Bounds of the model.                                                    *)
(***************************************************************************)
\* number of requests in flight
NumAttempts == 2
\* the instant (seconds) at which the pending codes were generated
Epoch == 1000
\* how far (seconds) the clock of the drift specification ranges around Epoch
MaxDrift == 52

(***************************************************************************)
(* Program constants.                                                      *)
(***************************************************************************)
\* window: 50 in the verifyTOTP call
Window == 50
\* z.string().min(6).max(6)
CodeLength == 6

verificationType == "forgot-password"
resetPasswordUsernameSessionKey == "resetPasswordUsername"

Attempts == 1..NumAttempts

(***************************************************************************)
(* The identity table (prisma.user) and the request inputs.                *)
(***************************************************************************)
Users == {[email |-> "kody@example.com", username |-> "kody"]}

\* "ghost" has a well-formed name but no user; "k" is no email and no username
Targets == {"kody", "kody@example.com", "ghost", "k"}

\* emailSchema / usernameSchema of ~/utils/user-validation.ts
IsEmail(t) == t \in {"kody@example.com"}
IsUsername(t) == t \in {"kody", "ghost"}

EmptySession == <<>>
\* the session of the request's Cookie header: none, or a logged-in user's
\* session, or one that still holds the key of an earlier recovery
CookieSessions ==
    {EmptySession, [userId |-> "id-1"], [resetPasswordUsername |-> "hannah"]}

(***************************************************************************)
(* ~/utils/totp.server.ts.  The HMAC is a keyed function of the counter,   *)
(* truncated to CodeLength decimal digits and zero-padded.                 *)
(***************************************************************************)
Pow10(n) == IF n = 0 THEN 1 ELSE IF n = 1 THEN 10 ELSE IF n = 2 THEN 100
            ELSE IF n = 3 THEN 1000 ELSE IF n = 4 THEN 10000
            ELSE IF n = 5 THEN 100000 ELSE 1000000

AlgorithmSalt(algorithm) == IF algorithm = "SHA1" THEN 1301 ELSE 2609

\* the truncated HMAC value of (key, counter) under the algorithm
Hmac(secretKey, algorithm, counter) ==
    (secretKey * 100003 + AlgorithmSalt(algorithm) + counter * 7) % Pow10(CodeLength)

\* the decimal digits of the value, most significant first, zero-padded
generateHOTP(secretKey, algorithm, counter) ==
    [i \in 1..CodeLength |->
        (Hmac(secretKey, algorithm, counter) \div Pow10(CodeLength - i)) % 10]

getCounter(time, validSeconds) == time \div validSeconds

generateTOTP(secretKey, algorithm, validSeconds, time) ==
    generateHOTP(secretKey, algorithm, getCounter(time, validSeconds))

\* the otp equals the code of one of the counters counter-window..counter+window
verifyHOTP(otp, secretKey, algorithm, counter, window) ==
    \E i \in (counter - window)..(counter + window) :
        generateHOTP(secretKey, algorithm, i) = otp

verifyTOTP(otp, secretKey, algorithm, validSeconds, window, time) ==
    verifyHOTP(otp, secretKey, algorithm, getCounter(time, validSeconds), window)

(***************************************************************************)
(* The verification rows that may be pending.  Each was issued (by         *)
(* forgot-password.tsx) with the code of its own secret.                   *)
(***************************************************************************)
Row(id, type, target, secretKey, algorithm, validSeconds, issuedAt) ==
    [id |-> id, type |-> type, verificationTarget |-> target,
     otp |-> generateTOTP(secretKey, algorithm, validSeconds, issuedAt),
     secretKey |-> secretKey, algorithm |-> algorithm,
     validSeconds |-> validSeconds]

Pool ==
    { Row(1, verificationType, "kody", 1, "SHA1", 1, Epoch),
      Row(2, verificationType, "kody", 2, "SHA256", 2, Epoch),
      Row(3, verificationType, "ghost", 3, "SHA1", 1, Epoch) }

NoCode == <<>>
WrongCode == [i \in 1..CodeLength |-> 0]
ShortCode == [i \in 1..(CodeLength - 1) |-> i]
LongCode == [i \in 1..(CodeLength + 1) |-> i]

Codes == {r.otp : r \in Pool} \cup {WrongCode, ShortCode, LongCode}

\* the instants the clock of Spec visits: the issue time, and the first
\* instant at which a code of one-second steps has left the window
Instants == {Epoch, Epoch + Window + 1}

(***************************************************************************)
(* verifySchema and the issues validate() reports.                         *)
(***************************************************************************)
Issue(path, message) == [path |-> path, message |-> message]

InvalidCode == Issue("code", "Invalid code")

\* lines 77-83: the issue added when no row is found
NotFoundIssue == InvalidCode

\* variant: the failed check reports a message of its own
TotpIssueExpired == Issue("code", "Code expired")

\* lines 93-99: the issue added when the TOTP check fails
TotpIssue == InvalidCode

\* the issues of the object schema itself, before the superRefine
SchemaIssues(usernameOrEmail, code) ==
    (IF IsEmail(usernameOrEmail) \/ IsUsername(usernameOrEmail) THEN {}
     ELSE {Issue("usernameOrEmail", "Invalid")})
    \cup (IF code = NoCode THEN {Issue("code", "Required")} ELSE {})
    \cup (IF code # NoCode /\ Len(code) < CodeLength
          THEN {Issue("code", "String must contain at least 6 character(s)")}
          ELSE {})
    \cup (IF Len(code) > CodeLength
          THEN {Issue("code", "String must contain at most 6 character(s)")}
          ELSE {})

\* a missing field aborts the parse: zod then skips the refinement.  A string
\* of the wrong length or format only marks the value dirty, and the
\* refinement still runs.
SchemaAborted(usernameOrEmail, code) == code = NoCode

(***************************************************************************)
(* Responses.                                                              *)
(***************************************************************************)
NoResponse ==
    [type |-> "none", status |-> 0, body |-> "", error |-> {},
     location |-> "", setCookie |-> <<>>]

\* json({ status, submission }, { status })
Json(bodyStatus, error, httpStatus) ==
    [type |-> "json", status |-> httpStatus, body |-> bodyStatus,
     error |-> error, location |-> "", setCookie |-> <<>>]

\* redirect('/reset-password', { headers: { 'Set-Cookie': ... } })
Redirect(location, session) ==
    [type |-> "redirect", status |-> 302, body |-> "", error |-> {},
     location |-> location, setCookie |-> <<session>>]

\* invariant(user, 'User not found') throws: the request fails
Thrown(message) ==
    [type |-> "throw", status |-> 500, body |-> message, error |-> {},
     location |-> "", setCookie |-> <<>>]

\* session.set(key, value)
SessionSet(session, key, value) ==
    [k \in (DOMAIN session) \cup {key} |-> IF k = key THEN value ELSE session[k]]

\* getSession(request.headers.get('Cookie')): the session the cookie carries
getSession(cookie) == cookie

(***************************************************************************)
(* The state of one request.                                               *)
(***************************************************************************)
Fresh ==
    [pc |-> "idle", via |-> "", usernameOrEmail |-> "", code |-> NoCode,
     intent |-> "", cookie |-> EmptySession, issues |-> {},
     verification |-> {}, totpCalls |-> 0, result |-> FALSE,
     deleted |-> -1, user |-> {}, replay |-> FALSE, afterRejected |-> FALSE,
     response |-> NoResponse]

Init ==
    /\ store = Pool
    /\ now = Epoch
    /\ att = [a \in Attempts |-> Fresh]

\* variant: the where clause without the target
MatchingAnyTarget(rows, usernameOrEmail, code) ==
    {r \in rows : r.type = verificationType /\ r.otp = code}

\* variant: the where clause without the otp
MatchingAnyCode(rows, usernameOrEmail, code) ==
    {r \in rows : /\ r.type = verificationType
                  /\ r.verificationTarget = usernameOrEmail}

\* the rows prisma.verification.findFirst / deleteMany select
Matching(rows, usernameOrEmail, code) ==
    {r \in rows : /\ r.type = verificationType
                  /\ r.verificationTarget = usernameOrEmail
                  /\ r.otp = code}

\* variant: window: 51
CheckCodeWindow51(code, v, time) ==
    verifyTOTP(code, v.secretKey, v.algorithm, v.validSeconds, Window + 1, time)

\* lines 85-92: verifyTOTP with the row's key, algorithm, period; window: 50
CheckCode(code, v, time) ==
    verifyTOTP(code, v.secretKey, v.algorithm, v.validSeconds, Window, time)

\* variant: nothing is deleted
RemainingNoDelete(rows, usernameOrEmail, code) == rows

\* variant: the where clause without the otp
RemainingOfOtherTargets(rows, usernameOrEmail, code) ==
    {r \in rows : ~(/\ r.type = verificationType
                    /\ r.verificationTarget = usernameOrEmail)}

\* lines 118-124: the table after deleteMany of (type, target, otp)
Remaining(rows, usernameOrEmail, code) ==
    rows \ Matching(rows, usernameOrEmail, code)

\* variant: the query without its where clause
UserMatchesAny(u, usernameOrEmail) == TRUE

\* line 127: OR: [{ email: usernameOrEmail }, { username: usernameOrEmail }]
UserMatches(u, usernameOrEmail) ==
    u.email = usernameOrEmail \/ u.username = usernameOrEmail

\* variant: the email is stored under the username key
HandoffSessionEmail(cookie, user) ==
    SessionSet(getSession(cookie), resetPasswordUsernameSessionKey, user.email)

\* lines 133-134: the request's session with the user's username set
HandoffSession(cookie, user) ==
    SessionSet(getSession(cookie), resetPasswordUsernameSessionKey, user.username)

Verified(r) == r.pc = "done" /\ r.response.type = "redirect"
Rejected(r) == r.pc = "done" /\ r.response.type = "json" /\ r.response.status = 400
Idle(r) == r.pc = "done" /\ r.response.type = "json" /\ r.response.body = "idle"
Fatal(r) == r.pc = "done" /\ r.response.type = "throw"

\* variant: the submission goes on although it has issues
AfterParseIgnoreIssues(r) ==
    IF r.intent # "submit"
    THEN [r EXCEPT !.pc = "done", !.response = Json("idle", r.issues, 200)]
    ELSE [r EXCEPT !.pc = "deleteMany"]

\* variant: an invalid submission is sent back to the lookup
AfterParseRetry(r) ==
    IF r.intent # "submit"
    THEN [r EXCEPT !.pc = "done", !.response = Json("idle", r.issues, 200)]
    ELSE IF r.issues # {}
    THEN [r EXCEPT !.pc = "findFirst"]
    ELSE [r EXCEPT !.pc = "deleteMany"]

\* variant: the intent is not looked at
AfterParseAnyIntent(r) ==
    IF r.issues # {}
    THEN [r EXCEPT !.pc = "done", !.response = Json("error", r.issues, 400)]
    ELSE [r EXCEPT !.pc = "deleteMany"]

\* variant: the deleteMany is left out
AfterParseSkipDelete(r) ==
    IF r.intent # "submit"
    THEN [r EXCEPT !.pc = "done", !.response = Json("idle", r.issues, 200)]
    ELSE IF r.issues # {}
    THEN [r EXCEPT !.pc = "done", !.response = Json("error", r.issues, 400)]
    ELSE [r EXCEPT !.pc = "findUser"]

\* lines 106-117: what validate() does once parse() has returned
AfterParse(r) ==
    IF r.intent # "submit"
    THEN [r EXCEPT !.pc = "done", !.response = Json("idle", r.issues, 200)]
    ELSE IF r.issues # {}
    THEN [r EXCEPT !.pc = "done", !.response = Json("error", r.issues, 400)]
    ELSE [r EXCEPT !.pc = "deleteMany"]

\* lines 61-64: parse() runs the schema, then the refinement unless aborted
Validate(a, via, usernameOrEmail, code, intent) ==
    LET r == [Fresh EXCEPT !.via = via, !.usernameOrEmail = usernameOrEmail,
                           !.code = code, !.intent = intent,
                           !.issues = SchemaIssues(usernameOrEmail, code),
                           !.replay = \E b \in Attempts :
                                         /\ Verified(att[b])
                                         /\ att[b].usernameOrEmail = usernameOrEmail
                                         /\ att[b].code = code,
                           !.afterRejected = \E b \in Attempts :
                                         /\ Rejected(att[b])
                                         /\ att[b].usernameOrEmail = usernameOrEmail]
    IN  att' = [att EXCEPT ![a] =
                  IF SchemaAborted(usernameOrEmail, code) THEN AfterParse(r)
                  ELSE [r EXCEPT !.pc = "findFirst"]]

\* a request starts once the ones before it have (the requests are alike)
CanStart(a) == att[a].pc = "idle" /\ \A b \in 1..(a - 1) : att[b].pc # "idle"

\* loader, lines 42-53: no code parameter in the URL
LoaderIdle(a) ==
    /\ CanStart(a)
    /\ \E t \in Targets :
         att' = [att EXCEPT ![a] =
                   [Fresh EXCEPT !.via = "loader", !.usernameOrEmail = t,
                                 !.pc = "done",
                                 !.response = Json("idle", {}, 200)]]
    /\ UNCHANGED <<store, now>>

\* loader, line 54: the URL carries the code
Loader(a) ==
    /\ CanStart(a)
    /\ \E t \in Targets, code \in Codes :
         Validate(a, "loader", t, code, "submit")
    /\ UNCHANGED <<store, now>>

\* action, line 58: the posted form, whose intent is submit or a validation
Action(a) ==
    /\ CanStart(a)
    /\ \E t \in Targets, code \in Codes \cup {NoCode},
          intent \in {"submit", "validate/code"} :
         Validate(a, "action", t, code, intent)
    /\ UNCHANGED <<store, now>>

\* lines 65-84: the lookup by (type, target, otp)
FindFirst(a) ==
    /\ att[a].pc = "findFirst"
    /\ LET r == att[a]
           m == Matching(store, r.usernameOrEmail, r.code)
       IN  IF m = {}
           THEN att' = [att EXCEPT ![a] =
                          AfterParse([r EXCEPT !.issues = @ \cup {NotFoundIssue}])]
           ELSE \E v \in m :
                  att' = [att EXCEPT ![a] =
                            [r EXCEPT !.verification = {v}, !.pc = "verifyTOTP"]]
    /\ UNCHANGED <<store, now>>

\* lines 85-100: the TOTP check of the row found, at the current time
VerifyTOTP(a) ==
    /\ att[a].pc = "verifyTOTP"
    /\ LET r == att[a]
           v == CHOOSE x \in r.verification : TRUE
           ok == CheckCode(r.code, v, now)
       IN  att' = [att EXCEPT ![a] =
                     AfterParse([r EXCEPT !.result = ok, !.totpCalls = @ + 1,
                                          !.issues = IF ok THEN @
                                                     ELSE @ \cup {TotpIssue}])]
    /\ UNCHANGED <<store, now>>

\* lines 118-124: delete every row of (type, target, otp)
DeleteMany(a) ==
    /\ att[a].pc = "deleteMany"
    /\ LET r == att[a]
           m == Matching(store, r.usernameOrEmail, r.code)
       IN  /\ store' = Remaining(store, r.usernameOrEmail, r.code)
           /\ att' = [att EXCEPT ![a] =
                        [r EXCEPT !.deleted = Cardinality(m), !.pc = "findUser"]]
    /\ UNCHANGED now

\* lines 126-131: the user of the target, or the invariant throws
FindUser(a) ==
    /\ att[a].pc = "findUser"
    /\ LET r == att[a]
           m == {u \in Users : UserMatches(u, r.usernameOrEmail)}
       IN  IF m = {}
           THEN att' = [att EXCEPT ![a] =
                          [r EXCEPT !.pc = "done",
                                    !.response = Thrown("User not found")]]
           ELSE \E u \in m :
                  att' = [att EXCEPT ![a] =
                            [r EXCEPT !.user = {u}, !.pc = "getSession"]]
    /\ UNCHANGED <<store, now>>

\* lines 133-137: the session of the request's cookie (read here for the
\* first time), with the username set, committed on the redirect
CommitSession(a) ==
    /\ att[a].pc = "getSession"
    /\ \E cookie \in CookieSessions :
         LET r == att[a]
             u == CHOOSE x \in r.user : TRUE
             session == HandoffSession(cookie, u)
         IN  att' = [att EXCEPT ![a] =
                       [r EXCEPT !.cookie = cookie, !.pc = "done",
                                 !.response = Redirect("/reset-password", session)]]
    /\ UNCHANGED <<store, now>>

\* time passes
Tick ==
    /\ \E t \in Instants : t > now /\ now' = t
    /\ UNCHANGED <<store, att>>

Step(a) ==
    \/ LoaderIdle(a)
    \/ Loader(a)
    \/ Action(a)
    \/ FindFirst(a)
    \/ VerifyTOTP(a)
    \/ DeleteMany(a)
    \/ FindUser(a)
    \/ CommitSession(a)

Next == Tick \/ \E a \in Attempts : Step(a)

Spec == Init /\ [][Next]_vars

\* every store and session call of a request in flight returns
SpecLive ==
    /\ Spec
    /\ \A a \in Attempts :
          WF_vars(FindFirst(a) \/ VerifyTOTP(a) \/ DeleteMany(a)
                    \/ FindUser(a) \/ CommitSession(a))

(***************************************************************************)
(* The drift specification: one request against the full table, with the  *)
(* clock moving second by second from MaxDrift before the issue time to    *)
(* MaxDrift after it (a negative drift is a clock behind the issuer's).    *)
(***************************************************************************)
InitDrift ==
    /\ store = Pool
    /\ now = Epoch - MaxDrift
    /\ att = [a \in Attempts |-> Fresh]

TickSecond ==
    /\ now < Epoch + MaxDrift
    /\ now' = now + 1
    /\ UNCHANGED <<store, att>>

NextDrift == TickSecond \/ Step(1)

SpecDrift == InitDrift /\ [][NextDrift]_vars

(***************************************************************************)
(* The same-code specification: the table holds, beside the pool, an older *)
(* row of "kody" that was never consumed and whose six-digit code happens  *)
(* to equal the code of row 1, under another secret.  Its own step lies    *)
(* more than the window before the issue time of the pool.                 *)
(***************************************************************************)
StaleRow == Row(4, verificationType, "kody", 281, "SHA1", 1, Epoch - 120)

InitSameCode ==
    /\ store = Pool \cup {StaleRow}
    /\ now = Epoch
    /\ att = [a \in Attempts |-> Fresh]

SpecSameCode == InitSameCode /\ [][Next]_vars

(***************************************************************************)
(* Properties.                                                             *)
(***************************************************************************)
HasUser(usernameOrEmail) ==
    \E u \in Users : u.email = usernameOrEmail \/ u.username = usernameOrEmail

\* the rows of the table for (forgot-password, target, code)
RowsOfCode(rows, usernameOrEmail, code) ==
    {r \in rows : /\ r.type = "forgot-password"
                  /\ r.verificationTarget = usernameOrEmail
                  /\ r.otp = code}

\* the rows of the table for (forgot-password, target)
RowsOfTarget(rows, usernameOrEmail) ==
    {r \in rows : /\ r.type = "forgot-password"
                  /\ r.verificationTarget = usernameOrEmail}

\* the request has been through the TOTP check of a row, and it passed
PassedTotp(r) == r.verification # {} /\ r.totpCalls > 0 /\ r.result

\* C1: of two requests that carry the same (target, code) of a target with a
\* user, both submitted and both past the TOTP check of the pending row,
\* exactly one ends Verified and the other Rejected; and a request whose
\* deleteMany removed no row is not reported as Verified.
C1_ExactlyOneVerified ==
    /\ \A a, b \in Attempts :
         ( /\ a # b
           /\ att[a].pc = "done" /\ att[b].pc = "done"
           /\ att[a].usernameOrEmail = att[b].usernameOrEmail
           /\ att[a].code = att[b].code
           /\ HasUser(att[a].usernameOrEmail)
           /\ att[a].intent = "submit" /\ att[b].intent = "submit"
           /\ PassedTotp(att[a]) /\ PassedTotp(att[b]) )
         => \/ Verified(att[a]) /\ Rejected(att[b])
            \/ Verified(att[b]) /\ Rejected(att[a])
    /\ \A a \in Attempts : Verified(att[a]) => att[a].deleted >= 1

\* C2: a request for (target, code) that starts after a request for the same
\* (target, code) has ended Verified finds no row: it gets the Invalid code
\* issue, is never Verified, and a submission is Rejected with status 400.
C2_SingleUse ==
    \A a \in Attempts :
        (att[a].replay /\ att[a].pc # "findFirst")
        => /\ att[a].pc = "done"
           /\ att[a].verification = {}
           /\ InvalidCode \in att[a].response.error
           /\ ~Verified(att[a])
           /\ att[a].intent = "submit" => Rejected(att[a])

C2_Witness ==
    \E a \in Attempts :
        att[a].replay /\ Rejected(att[a]) /\ att[a].intent = "submit"

\* C3: a request that has been answered with the redirect (or has got as far
\* as the user lookup or the session) has executed its deleteMany, and the
\* row it verified against is no longer in the table.
C3_DeleteBeforeSuccess ==
    \A a \in Attempts :
        (Verified(att[a]) \/ att[a].pc \in {"findUser", "getSession"})
        => /\ att[a].deleted >= 0
           /\ att[a].verification \cap store = {}

C3_Witness ==
    \E a \in Attempts : Verified(att[a]) /\ att[a].deleted = 1

\* C4: the username key is set (the redirect commits a session) only by a
\* submitted request that found a row of (type, target, code), whose TOTP
\* check returned true and whose user lookup returned a user; a request
\* that is idle, rejected, failed or still running has committed no session.
C4_SessionOnlyAfterVerification ==
    \A a \in Attempts :
        /\ att[a].response.setCookie # <<>>
           => /\ Verified(att[a])
              /\ att[a].intent = "submit"
              /\ att[a].issues = {}
              /\ PassedTotp(att[a])
              /\ \A v \in att[a].verification :
                    /\ v.type = verificationType
                    /\ v.verificationTarget = att[a].usernameOrEmail
                    /\ v.otp = att[a].code
              /\ att[a].user # {}
              /\ \A u \in att[a].user : u \in Users
        /\ ~Verified(att[a]) => att[a].response.setCookie = <<>>

C4_Witness ==
    \E a \in Attempts :
        /\ att[a].response.setCookie # <<>>
        /\ PassedTotp(att[a])
        /\ att[a].user # {}

\* C5 (as claimed): after a Verified request no row of (type, target) is
\* left in the table.
C5_NoRowOfTargetLeft ==
    \A a \in Attempts :
        Verified(att[a])
        => Cardinality(RowsOfTarget(store, att[a].usernameOrEmail)) = 0

\* C5 (amended): after a Verified request no row of (type, target, code) is
\* left in the table; its deleteMany removes the rows of (type, target,
\* code) and no other row, so rows of the target with another code stay.
C5_NoRowOfCodeLeft ==
    /\ [](\A a \in Attempts :
            Verified(att[a])
            => Cardinality(RowsOfCode(store, att[a].usernameOrEmail,
                                      att[a].code)) = 0)
    /\ [][ \A a \in Attempts :
             (att[a].pc = "deleteMany" /\ att'[a].pc # "deleteMany")
             => store' = store \ RowsOfCode(store, att[a].usernameOrEmail,
                                            att[a].code) ]_vars

\* a Verified request, with a row of the same target and another code left
C5_Witness ==
    \E a \in Attempts :
        /\ Verified(att[a])
        /\ \E r \in RowsOfTarget(store, att[a].usernameOrEmail) :
              r.otp # att[a].code

\* the session a Verified request committed on its redirect
Committed(r) == r.response.setCookie[1]

C7_NoRecordRejected ==
    [][ \A a \in Attempts :
          ( /\ att[a].pc = "findFirst"
            /\ att'[a].pc # "findFirst"
            /\ att[a].intent = "submit"
            /\ RowsOfTarget(store, att[a].usernameOrEmail) = {} )
          => /\ Rejected(att'[a])
             /\ att'[a].response.status = 400
             /\ Issue("code", "Invalid code") \in att'[a].response.error
             /\ att'[a].response.setCookie = <<>>
             /\ att'[a].deleted = -1
             /\ store' = store ]_vars

\* a request with a well-formed code Rejected for a target without rows
C7_Witness ==
    \E a \in Attempts :
        /\ Rejected(att[a])
        /\ att[a].code \in {r.otp : r \in Pool}
        /\ att[a].usernameOrEmail = "kody@example.com"
        /\ RowsOfTarget(store, att[a].usernameOrEmail) = {}
        /\ att[a].verification = {}

\* C8: a submission Rejected because no row matched and a submission of the
\* same code Rejected because the TOTP check of its row failed get the same
\* response: status 400, the issues of the schema plus Invalid code on the
\* code field, and no session cookie.
C8_RejectionsIndistinguishable ==
    \A a, b \in Attempts :
        ( /\ Rejected(att[a]) /\ Rejected(att[b])
          /\ att[a].code = att[b].code
          /\ att[a].verification = {} /\ att[a].code # NoCode
          /\ att[b].verification # {} /\ ~att[b].result
          /\ att[a].usernameOrEmail \in {"kody", "kody@example.com", "ghost"}
          /\ att[a].intent = "submit" /\ att[b].intent = "submit" )
        => /\ att[a].response = att[b].response
           /\ att[a].response.status = 400
           /\ att[a].response.error = {Issue("code", "Invalid code")}
           /\ att[a].response.setCookie = <<>>

\* one request Rejected on a missing row, one on a failed TOTP check
C8_Witness ==
    \E a, b \in Attempts :
        /\ Rejected(att[a]) /\ Rejected(att[b])
        /\ att[a].code = att[b].code
        /\ att[a].verification = {}
        /\ att[b].verification # {} /\ att[b].totpCalls = 1 /\ ~att[b].result

\* C9: a submission that found a row and passed its TOTP check, for a
\* target that no user has as email or username, never reaches the session
\* step: it ends with the thrown invariant error, with no validation
\* failure, no redirect and no session.
C9_MissingUserIsFatal ==
    \A a \in Attempts :
        ( /\ PassedTotp(att[a])
          /\ att[a].intent = "submit"
          /\ ~HasUser(att[a].usernameOrEmail)
          /\ att[a].pc \in {"getSession", "done"} )
        => /\ Fatal(att[a])
           /\ att[a].response.body = "User not found"
           /\ att[a].response.status # 400
           /\ att[a].response.location = ""
           /\ att[a].response.setCookie = <<>>

C9_Witness ==
    \E a \in Attempts :
        /\ Fatal(att[a])
        /\ PassedTotp(att[a])
        /\ att[a].usernameOrEmail = "ghost"

\* C10: when the TOTP check runs on a row found for the submitted code, and
\* the code is the row's code of the step k steps from the current step,
\* the check returns true when |k| <= 50 and false when |k| > 50 (k = 51
\* included): a row is unusable once the clock is more than 50 steps past
\* the step of its code.
C10_DriftWindow ==
    [][ \A a \in Attempts :
          (att[a].pc = "verifyTOTP" /\ att'[a].pc # "verifyTOTP")
          => \A v \in att[a].verification :
               \A k \in (0 - MaxDrift - 1)..(MaxDrift + 1) :
                  att[a].code = generateHOTP(v.secretKey, v.algorithm,
                                             (now \div v.validSeconds) + k)
                  => /\ att'[a].result <=> (k >= -50 /\ k <= 50)
                     /\ att'[a].intent = "submit"
                        => IF k >= -50 /\ k <= 50
                           THEN att'[a].pc = "deleteMany"
                           ELSE Rejected(att'[a]) ]_vars

\* a code of the step 51 steps before the current one has just been refused
C10_Witness ==
    \E a \in Attempts :
        /\ Rejected(att[a])
        /\ att[a].totpCalls = 1
        /\ \E v \in att[a].verification :
             att[a].code = generateHOTP(v.secretKey, v.algorithm,
                                        (now \div v.validSeconds) - 51)

\* C11: a request whose code is not 6 characters long never reaches the
\* TOTP check: no row is found for it, verifyTOTP is not called, it is never
\* Verified, and a submission of it ends Rejected with status 400.
C11_WrongLengthNoTotp ==
    \A a \in Attempts :
        (att[a].pc # "idle" /\ Len(att[a].code) # 6)
        => /\ att[a].totpCalls = 0
           /\ att[a].verification = {}
           /\ att[a].pc \in {"findFirst", "done"}
           /\ ~Verified(att[a])
           /\ (att[a].pc = "done" /\ att[a].intent = "submit")
              => /\ Rejected(att[a])
                 /\ \E i \in att[a].response.error : i.path = "code"

\* a five-digit code Rejected for a target that has pending rows
C11_Witness ==
    \E a \in Attempts :
        /\ Rejected(att[a])
        /\ Len(att[a].code) = 5
        /\ att[a].totpCalls = 0
        /\ RowsOfTarget(store, att[a].usernameOrEmail) # {}

\* C12: deleteMany is idempotent per (type, target, code): a delete removes
\* every stored row of its triple and counts them, and a delete that follows
\* another delete of the same triple removes zero rows and leaves the table
\* as it was.
C12_DeleteIdempotent ==
    [][ \A a \in Attempts :
          (att[a].pc = "deleteMany" /\ att'[a].pc # "deleteMany")
          => /\ att'[a].deleted
                  = Cardinality(RowsOfCode(store, att[a].usernameOrEmail,
                                           att[a].code))
             /\ RowsOfCode(store', att[a].usernameOrEmail, att[a].code) = {}
             /\ (\E b \in Attempts :
                    /\ b # a
                    /\ att[b].deleted >= 0
                    /\ att[b].usernameOrEmail = att[a].usernameOrEmail
                    /\ att[b].code = att[a].code)
                => (att'[a].deleted = 0 /\ store' = store) ]_vars

\* two deletes of one triple have run: the first removed a row, the second none
C12_Witness ==
    \E a, b \in Attempts :
        /\ a # b
        /\ att[a].usernameOrEmail = att[b].usernameOrEmail
        /\ att[a].code = att[b].code
        /\ att[a].deleted > 0
        /\ att[b].deleted = 0
        /\ RowsOfCode(store, att[a].usernameOrEmail, att[a].code) = {}

\* the rows the lookup of the request can return: the rows of its
\* (type, target, code) in the table, and the row it has already read
Candidates(r) == RowsOfCode(store, r.usernameOrEmail, r.code) \cup r.verification

\* the code is valid under the row's own secret at the current instant
ValidUnder(code, v) ==
    verifyTOTP(code, v.secretKey, v.algorithm, v.validSeconds, 50, now)

\* C13: with several pending rows of one target, the TOTP check of a request
\* passes exactly when some row that stores the submitted code validates it
\* under its own secret, whichever of the code-matching rows findFirst
\* returned; the row checked always stores the submitted code; and a
\* submission for a target with a user that passed ends Verified.
C13_AnyMatchingRowDecides ==
    /\ [][ \A a \in Attempts :
             (att[a].pc = "verifyTOTP" /\ att'[a].pc # "verifyTOTP")
             => /\ att'[a].result
                     <=> \E v \in Candidates(att[a]) : ValidUnder(att[a].code, v)
                /\ \A v \in att[a].verification :
                     /\ v.otp = att[a].code
                     /\ v.verificationTarget = att[a].usernameOrEmail ]_vars
    /\ [](\A a \in Attempts :
            ( /\ att[a].pc = "done" /\ att[a].intent = "submit"
              /\ PassedTotp(att[a]) /\ HasUser(att[a].usernameOrEmail) )
            => Verified(att[a]))

\* C14: a Rejected request has run no deleteMany, read no user and set no
\* cookie, and no step of a request that has not run its deleteMany changes
\* the table; a submission with an issue ends Rejected; so a row of the pool
\* is still found by a later lookup unless a deleteMany of its triple has
\* run, and a submission that arrives after a rejection for its target and
\* passes the TOTP check (target with a user) ends Verified.
C14_RejectionChangesNothing ==
    /\ [](\A a \in Attempts :
            /\ Rejected(att[a])
               => /\ att[a].deleted = -1
                  /\ att[a].user = {}
                  /\ att[a].response.setCookie = <<>>
            /\ (att[a].pc = "done" /\ att[a].intent = "submit"
                /\ att[a].issues # {})
               => Rejected(att[a])
            /\ ( /\ att[a].afterRejected /\ att[a].pc = "done"
                 /\ att[a].intent = "submit"
                 /\ PassedTotp(att[a]) /\ HasUser(att[a].usernameOrEmail) )
               => Verified(att[a]))
    /\ [][ \A a \in Attempts :
             /\ (att'[a] # att[a] /\ att'[a].deleted = -1) => store' = store
             /\ ( /\ att[a].pc = "findFirst" /\ att'[a].pc # "findFirst"
                  /\ RowsOfCode(Pool, att[a].usernameOrEmail, att[a].code) # {}
                  /\ ~\E b \in Attempts :
                        /\ att[b].deleted >= 0
                        /\ att[b].usernameOrEmail = att[a].usernameOrEmail
                        /\ att[b].code = att[a].code )
                => att'[a].verification # {} ]_vars

\* a wrong code was Rejected for "kody"; the request that came after it with
\* the code of a pending row is Verified
C14_Witness ==
    \E a, b \in Attempts :
        /\ Rejected(att[a])
        /\ RowsOfCode(Pool, att[a].usernameOrEmail, att[a].code) = {}
        /\ att[b].afterRejected
        /\ att[b].usernameOrEmail = att[a].usernameOrEmail
        /\ Verified(att[b])

\* no other request is for the target of request a
AloneOnTarget(a) ==
    \A b \in Attempts :
        b # a => att[b].usernameOrEmail # att[a].usernameOrEmail

\* C15: a deleteMany removes only rows of the target of the request that runs
\* it and no step adds or alters a row; and a request whose target no other
\* request shares sees the rows the target had at the start, whatever the
\* other requests did: its lookup finds a row exactly when the pool holds one
\* for (target, code), its delete removes exactly those, and its outcome is
\* the one the handler gives for its own input, rows and TOTP result.
C15_TargetsIndependent ==
    /\ [][ /\ store' \subseteq store
           /\ \A v \in store \ store' :
                \E a \in Attempts :
                    /\ att[a].pc = "deleteMany" /\ att'[a].pc # "deleteMany"
                    /\ v.verificationTarget = att[a].usernameOrEmail ]_vars
    /\ [](\A a \in Attempts :
            (AloneOnTarget(a) /\ att[a].pc \notin {"idle", "findFirst"})
            => LET r == att[a]
                   mine == RowsOfCode(Pool, r.usernameOrEmail, r.code)
               IN  /\ r.verification \subseteq mine
                   /\ (r.verification = {}) <=> (mine = {})
                   /\ r.deleted >= 0 => r.deleted = Cardinality(mine)
                   /\ r.pc = "done"
                      => /\ Idle(r) <=> r.intent # "submit"
                         /\ Rejected(r)
                              <=> /\ r.intent = "submit"
                                  /\ (mine = {} \/ ~r.result)
                         /\ Fatal(r)
                              <=> /\ r.intent = "submit" /\ mine # {}
                                  /\ r.result
                                  /\ ~HasUser(r.usernameOrEmail)
                         /\ Verified(r)
                              <=> /\ r.intent = "submit" /\ mine # {}
                                  /\ r.result
                                  /\ HasUser(r.usernameOrEmail))

\* requests for two targets have both consumed their own row, and the row of
\* the other code of "kody" is still stored
C15_Witness ==
    \E a, b \in Attempts :
        /\ att[a].usernameOrEmail = "kody" /\ Verified(att[a])
        /\ att[b].usernameOrEmail = "ghost" /\ att[b].deleted = 1
        /\ att[b].pc = "done"
        /\ RowsOfTarget(store, "kody") # {}
        /\ RowsOfTarget(store, "ghost") = {}

\* the position of a request in validate(), in the order of the code
Rank(pc) ==
    CASE pc = "idle" -> 0
      [] pc = "findFirst" -> 1
      [] pc = "verifyTOTP" -> 2
      [] pc = "deleteMany" -> 3
      [] pc = "findUser" -> 4
      [] pc = "getSession" -> 5
      [] pc = "done" -> 6

\* how many of the four terminal outcomes the request is in
OutcomeCount(r) ==
    (IF Idle(r) THEN 1 ELSE 0) + (IF Rejected(r) THEN 1 ELSE 0)
    + (IF Fatal(r) THEN 1 ELSE 0) + (IF Verified(r) THEN 1 ELSE 0)

\* C16: no request stays in flight forever, given that each store and
\* session call returns, so every request that has started reaches its end
\* (it never returns to an earlier position); a finished request is in
\* exactly one of idle, Rejected, Fatal and Verified and an unfinished one in
\* none; every step of a request moves it forward in the handler, the TOTP
\* check runs at most once, and a finished request takes no further step.
C16_OneTerminalOutcome ==
    /\ []<>(\A a \in Attempts : att[a].pc \in {"idle", "done"})
    /\ [](\A a \in Attempts :
            /\ OutcomeCount(att[a]) = (IF att[a].pc = "done" THEN 1 ELSE 0)
            /\ att[a].totpCalls <= 1)
    /\ [][ \A a \in Attempts :
             att'[a] # att[a]
             => /\ att[a].pc # "done"
                /\ Rank(att'[a].pc) > Rank(att[a].pc) ]_vars

\* both requests have finished, one through every step to the redirect and
\* one with the invariant failure
C16_Witness ==
    /\ \A a \in Attempts : att[a].pc = "done"
    /\ \E a \in Attempts : Verified(att[a]) /\ att[a].totpCalls = 1
    /\ \E a \in Attempts : Fatal(att[a])

\* C17: a request that ended with the invariant failure has passed the TOTP
\* check and run its deleteMany, the rows of its (target, code) are gone
\* from the table and stay gone, and it set no cookie; a lookup for the same
\* (target, code) that runs after it finds no row and gets the Invalid code
\* issue, so that a submission is Rejected with status 400 and does not
\* reach the user lookup again.
C17_ConsumedBeforeFatal ==
    /\ [](\A a \in Attempts :
            Fatal(att[a])
            => /\ PassedTotp(att[a])
               /\ att[a].deleted >= 0
               /\ RowsOfCode(store, att[a].usernameOrEmail, att[a].code) = {}
               /\ att[a].response.setCookie = <<>>)
    /\ [][ \A a \in Attempts :
             ( /\ att[a].pc = "findFirst" /\ att'[a].pc # "findFirst"
               /\ \E b \in Attempts :
                    /\ Fatal(att[b])
                    /\ att[b].usernameOrEmail = att[a].usernameOrEmail
                    /\ att[b].code = att[a].code )
             => /\ att'[a].verification = {}
                /\ att'[a].pc = "done"
                /\ [path |-> "code", message |-> "Invalid code"]
                       \in att'[a].response.error
                /\ ~Fatal(att'[a])
                /\ att[a].intent = "submit" => Rejected(att'[a]) ]_vars

\* the code of the pending row of "ghost" ended one request with the
\* invariant failure and was then Rejected for the other
C17_Witness ==
    \E a, b \in Attempts :
        /\ Fatal(att[a])
        /\ att[b].usernameOrEmail = att[a].usernameOrEmail
        /\ att[b].code = att[a].code
        /\ Rejected(att[b])
        /\ att[b].verification = {}
        /\ att[b].response.error = {[path |-> "code", message |-> "Invalid code"]}

\* C18: a page load without the code parameter ends at once as idle, status
\* 200, with no error, no row read and no TOTP check; a request whose intent
\* is not submit goes through the lookup and the TOTP check only and ends as
\* idle, status 200; neither runs deleteMany, reads a user, sets a cookie or
\* changes the table, valid code or not.  A page load with the code
\* parameter is validated as a submission: with the same target, code, row
\* read, TOTP result and cookie it gets the response the posted form gets.
C18_OnlySubmitConsumes ==
    /\ [](\A a \in Attempts :
            /\ (att[a].via = "loader" /\ att[a].code = NoCode)
               => /\ att[a].pc = "done"
                  /\ att[a].response = [type |-> "json", status |-> 200,
                                        body |-> "idle", error |-> {},
                                        location |-> "", setCookie |-> <<>>]
                  /\ att[a].issues = {}
                  /\ att[a].verification = {}
                  /\ att[a].totpCalls = 0
            /\ (att[a].via # "" /\ att[a].intent # "submit")
               => /\ att[a].pc \in {"findFirst", "verifyTOTP", "done"}
                  /\ att[a].deleted = -1
                  /\ att[a].user = {}
                  /\ att[a].pc = "done"
                     => /\ Idle(att[a])
                        /\ att[a].response.status = 200
                        /\ att[a].response.setCookie = <<>>
            /\ (att[a].via = "loader" /\ att[a].code # NoCode)
               => att[a].intent = "submit"
            /\ \A b \in Attempts :
                 ( /\ att[a].via = "loader" /\ att[b].via = "action"
                   /\ att[b].intent = "submit"
                   /\ att[a].pc = "done" /\ att[b].pc = "done"
                   /\ att[a].usernameOrEmail = att[b].usernameOrEmail
                   /\ att[a].code = att[b].code /\ att[a].code # NoCode
                   /\ att[a].verification = att[b].verification
                   /\ att[a].result = att[b].result
                   /\ att[a].cookie = att[b].cookie )
                 => att[a].response = att[b].response)
    /\ [][ \A a \in Attempts :
             (att'[a] # att[a] /\ att'[a].intent # "submit")
             => store' = store ]_vars

\* a validation request with the valid code of a pending row of a target
\* with a user has ended as idle, and the row is still stored
C18_Witness ==
    \E a \in Attempts :
        /\ att[a].intent = "validate/code"
        /\ att[a].pc = "done"
        /\ PassedTotp(att[a])
        /\ HasUser(att[a].usernameOrEmail)
        /\ Idle(att[a])
        /\ att[a].verification \subseteq store

====
